---- MODULE Spec2Model ----
(***************************************************************************)
(* Business Card QR Generator (src/src/main.rs).                           *)
(*                                                                         *)
(* Text is modelled as a sequence of one-character strings, so that        *)
(* prefixes, line breaks and concatenation are computed, not assumed.      *)
(* One frame of BusinessCardApp::update is one action: the keyboard        *)
(* shortcuts (lines 164-203), then the toast timers (205-222), then the    *)
(* widgets (224-402), with one input event per frame.  A frame with        *)
(* several events runs the same handlers in the same order.                *)
(***************************************************************************)
EXTENDS Integers, Sequences, FiniteSets, TLC

VARIABLES
    contact,            \* BusinessCardApp.contact : BusinessContact
    vcard_text,         \* BusinessCardApp.vcard_text
    qr_code_texture,    \* BusinessCardApp.qr_code_texture : Option<TextureHandle>
    show_copied_toast,  \* BusinessCardApp.show_copied_toast
    toast_time,         \* BusinessCardApp.toast_time (whole seconds)
    show_saved_toast,   \* BusinessCardApp.show_saved_toast
    saved_toast_time,   \* BusinessCardApp.saved_toast_time (whole seconds)
    save_path,          \* BusinessCardApp.save_path
    raster,             \* the samples the rasterizer paints (it is a pure function)
    panicked,           \* an unwrap() of an Err has aborted the process
    generated,          \* history: some Generate has completed
    out                 \* what the last frame or call emitted and returned

vars ==
    <<contact, vcard_text, qr_code_texture, show_copied_toast, toast_time,
      show_saved_toast, saved_toast_time, save_path, raster, panicked,
      generated, out>>

-----------------------------------------------------------------------------
(* Bounds of the model.                                                    *)

\* at most this many fields of an encoder input carry a line break
MaxInjected == 1
\* at most this many fields of the form are non-empty at once
MaxFilled == 2
\* the window of raster samples that is carried through the conversion
MaxSamples == 3
\* the longest frame, in seconds
MaxDt == 1

-----------------------------------------------------------------------------
(* Text constants of generate_vcard.                                       *)

S_BEGIN ==
    <<"B", "E", "G", "I", "N", ":", "V", "C", "A", "R", "D", "\n">>
S_VERSION ==
    <<"V", "E", "R", "S", "I", "O", "N", ":", "3", ".", "0", "\n">>
P_N ==
    <<"N", ":">>
P_FN ==
    <<"F", "N", ":">>
P_ORG ==
    <<"O", "R", "G", ":">>
P_TITLE ==
    <<"T", "I", "T", "L", "E", ":">>
P_EMAIL ==
    <<"E", "M", "A", "I", "L", ";", "t", "y", "p", "e", "=", "W", "O", "R", "K", ",", "I", "N", "T", "E", "R", "N", "E", "T", ":">>
P_TEL_WORK ==
    <<"T", "E", "L", ";", "t", "y", "p", "e", "=", "W", "O", "R", "K", ",", "v", "o", "i", "c", "e", ":">>
P_TEL_CELL ==
    <<"T", "E", "L", ";", "t", "y", "p", "e", "=", "C", "E", "L", "L", ",", "v", "o", "i", "c", "e", ":">>
P_URL ==
    <<"U", "R", "L", ":">>
P_ADR ==
    <<"A", "D", "R", ";", "t", "y", "p", "e", "=", "W", "O", "R", "K", ":", ";", ";">>
P_NOTE ==
    <<"N", "O", "T", "E", ":">>
S_END ==
    <<"E", "N", "D", ":", "V", "C", "A", "R", "D">>
NL ==
    <<"\n">>

-----------------------------------------------------------------------------
(* BusinessContact and generate_vcard.                                     *)

Fields ==
    {"first_name", "last_name", "organization", "title", "email", "phone",
     "mobile", "website", "address", "note"}

\* #[derive(Default)]: every String field empty
DefaultContact ==
    [f \in Fields |-> <<>>]

\* String::is_empty
is_empty(s) == Len(s) = 0

\* format!("N:{};{};;;\n", last_name, first_name)
FormatN(last, first) ==
    P_N \o last \o <<";">> \o first \o <<";", ";", ";">> \o NL

\* format!("FN:{} {}\n", first_name, last_name)
FormatFN(first, last) ==
    P_FN \o first \o <<" ">> \o last \o NL

\* format!("<prefix>{}\n", value)
FormatField(prefix, value) ==
    prefix \o value \o NL

\* format!("ADR;type=WORK:;;{};;;;\n", address)
FormatAdr(address) ==
    P_ADR \o address \o <<";", ";", ";", ";">> \o NL

\* one `if !self.<field>.is_empty() { vcard.push_str(..) }`
PushIfPresent(vcard, value, line) ==
    IF ~is_empty(value) THEN vcard \o line ELSE vcard

generate_vcard(c) ==
    LET v0 == <<>>
        v1 == v0 \o S_BEGIN
        v2 == v1 \o S_VERSION
        v3 == v2 \o FormatN(c.last_name, c.first_name)
        v4 == v3 \o FormatFN(c.first_name, c.last_name)
        v5 == PushIfPresent(v4, c.organization, FormatField(P_ORG, c.organization))
        v6 == PushIfPresent(v5, c.title, FormatField(P_TITLE, c.title))
        v7 == PushIfPresent(v6, c.email, FormatField(P_EMAIL, c.email))
        v8 == PushIfPresent(v7, c.phone, FormatField(P_TEL_WORK, c.phone))
        v9 == PushIfPresent(v8, c.mobile, FormatField(P_TEL_CELL, c.mobile))
        v10 == PushIfPresent(v9, c.website, FormatField(P_URL, c.website))
        v11 == PushIfPresent(v10, c.address, FormatAdr(c.address))
        v12 == PushIfPresent(v11, c.note, FormatField(P_NOTE, c.note))
    IN  v12 \o S_END

-----------------------------------------------------------------------------
(* Option and Result values.                                               *)

None ==
    [is_some |-> FALSE]
Some(x) ==
    [is_some |-> TRUE, value |-> x]
Ok ==
    [ok |-> TRUE]
Err(e) ==
    [ok |-> FALSE, err |-> e]

-----------------------------------------------------------------------------
(* The rasterization library, as main.rs uses it.                          *)
(* to_image_buffer returns a Result.  Its Err arm is an outcome of the     *)
(* library (lib_ok = FALSE), and the code unwraps it.  An image records    *)
(* its dimensions, the symbol it paints (the text and the error-correction *)
(* level) and a window of MaxSamples of its grayscale samples, row-major.  *)

QR_SIZE == 512
ECC_MEDIUM ==
    "Medium"
GrayValues ==
    {0, 128, 255}
OPAQUE == 255

to_image_buffer(text, ecc, size, lib_ok) ==
    IF lib_ok
    THEN [ok |-> TRUE,
          image |-> [width |-> size, height |-> size,
                     symbol |-> [data |-> text, ecc |-> ecc],
                     pixels |-> raster]]
    ELSE Err(<<"QRCodeError">>)

\* the body of `for pixel in qr_code.pixels()`
\* fault: alpha and blue swapped
PushSwappedAlpha(rgba, value) == rgba \o <<value, value, OPAQUE, value>>
PushPixel(rgba, value) ==
    rgba \o <<value, value, value, OPAQUE>>

RECURSIVE ForPixels(_, _)
ForPixels(rgba, pixels) ==
    IF pixels = <<>>
    THEN rgba
    ELSE ForPixels(PushPixel(rgba, Head(pixels)), Tail(pixels))

\* Color32::from_rgba_unmultiplied: an opaque colour is kept as it is, a
\* transparent one is cleared, any other is premultiplied by its alpha
Color32(r, g, b, a) ==
    IF a = OPAQUE THEN <<r, g, b, a>>
    ELSE IF a = 0 THEN <<0, 0, 0, 0>>
    ELSE <<(r * a) \div 255, (g * a) \div 255, (b * a) \div 255, a>>

\* egui::ColorImage::from_rgba_unmultiplied([width, height], &rgba_data):
\* one Color32 per four bytes.  Its assertion that the buffer holds
\* width * height pixels is outside the sample window.
from_rgba_unmultiplied(size, rgba, symbol) ==
    [size |-> size,
     pixels |-> [i \in 1..(Len(rgba) \div 4) |->
                    Color32(rgba[4 * i - 3], rgba[4 * i - 2],
                            rgba[4 * i - 1], rgba[4 * i])],
     symbol |-> symbol]

\* generate_qr_code: [panic |-> TRUE] when the unwrap() meets an Err
generate_qr_code(text, lib_ok) ==
    LET qr_code == to_image_buffer(text, ECC_MEDIUM, QR_SIZE, lib_ok)
    IN  IF ~qr_code.ok
        THEN [panic |-> TRUE]
        ELSE LET width == qr_code.image.width
                 height == qr_code.image.height
                 rgba_data == ForPixels(<<>>, qr_code.image.pixels)
             IN  [panic |-> FALSE,
                  image |-> from_rgba_unmultiplied(<<width, height>>, rgba_data,
                                                   qr_code.image.symbol)]

\* ctx.load_texture("qr-code", color_image, Default::default())
load_texture(name, color_image) ==
    [name |-> name, image |-> color_image]

-----------------------------------------------------------------------------
(* save_qr_code_to_png.  io is the outcome of qr_code.save(file_path):     *)
(* whether it succeeded, the error if not, and whether the file at the     *)
(* path was created or overwritten, wholly or in part.                     *)

Paths ==
    {"qrcode.png", "cards/jane.png"}
IoOutcomes ==
    {[ok |-> TRUE, e |-> "", touched |-> TRUE],
     [ok |-> FALSE, e |-> "Permission denied", touched |-> FALSE],
     [ok |-> FALSE, e |-> "No space left on device", touched |-> TRUE]}

NO_VCARD ==
    <<"No vCard generated yet">>

\* PathBuf::from(path)
PathBuf(path) ==
    <<"PathBuf", path>>

\* lines 148-157: the rasterizer, then qr_code.save(file_path)
RenderAndSave(text, path, lib_ok, io) ==
    LET qr_code == to_image_buffer(text, ECC_MEDIUM, QR_SIZE, lib_ok)
    IN  IF ~qr_code.ok
        THEN [panic |-> TRUE, ret |-> Ok, lib_calls |-> 1, fs_ops |-> <<>>]
        ELSE LET file_path == PathBuf(path)
                 op == [op |-> "save", path |-> file_path,
                        image |-> qr_code.image, ok |-> io.ok,
                        error |-> io.e, touched |-> io.touched]
             IN  [panic |-> FALSE,
                  ret |-> IF io.ok
                          THEN Ok
                          ELSE Err(<<"Failed to save QR code: ", io.e>>),
                  lib_calls |-> 1,
                  fs_ops |-> <<op>>]

\* lines 143-158
\* fault: the empty-text guard left out
NoEmptyGuard(text, path, lib_ok, io) == RenderAndSave(text, path, lib_ok, io)
save_qr_code_to_png(text, path, lib_ok, io) ==
    IF is_empty(text)
    THEN [panic |-> FALSE, ret |-> Err(NO_VCARD), lib_calls |-> 0, fs_ops |-> <<>>]
    ELSE RenderAndSave(text, path, lib_ok, io)

-----------------------------------------------------------------------------
(* BusinessCardApp: construction and the handlers of update().             *)

TOAST_SECONDS == 2
DEFAULT_SAVE_PATH ==
    "qrcode.png"

\* what a frame or a call emits: the clipboard request, the filesystem
\* operations issued, the lines printed, the rasterizer calls, the result
NoOut(kind) ==
    [kind |-> kind, ret |-> None, copied_text |-> <<>>, fs_ops |-> <<>>,
     stderr |-> <<>>, stdout |-> <<>>, lib_calls |-> 0]

\* the raster the library paints in the application's runs
DefaultRaster ==
    [i \in 1..MaxSamples |-> IF i % 2 = 1 THEN 0 ELSE 255]

\* the frame times drawn for ctx.input(|i| i.stable_dt)
DeltaTimes ==
    1..MaxDt

\* what is typed into the form, and the fields it is typed into
FormTexts ==
    {<<>>, <<"J">>}
TypedFields ==
    {"first_name", "organization", "note"}

Filled(c) ==
    Cardinality({f \in Fields : ~is_empty(c[f])})

\* egui TextEdit bound to `buf`: an interactive one takes what is typed,
\* a non-interactive one (.interactive(false)) leaves the buffer alone
\* fault: .interactive(false) left out
AlwaysInteractive(buf, typed, interactive) == typed
text_edit(buf, typed, interactive) ==
    IF interactive THEN typed ELSE buf

\* lines 206-213 and 215-222: one toast timer
UpdateToast(show, time, dt) ==
    IF show
    THEN [show |-> ~(time + dt > TOAST_SECONDS), time |-> time + dt]
    ELSE [show |-> show, time |-> time]

\* lines 166-175 (Ctrl+G) and 284-293 (the Generate button)
\* fault: the text is set and the bitmap is not rendered
TextOnlyGenerate(c, texture, lib_ok) == [vcard_text |-> generate_vcard(c), texture |-> texture, panic |-> FALSE, lib_calls |-> 0]
OnGenerate(c, texture, lib_ok) ==
    LET text == generate_vcard(c)
    IN  IF ~is_empty(text)
        THEN LET color_image == generate_qr_code(text, lib_ok)
             IN  IF color_image.panic
                 THEN [vcard_text |-> text, texture |-> texture,
                       panic |-> TRUE, lib_calls |-> 1]
                 ELSE [vcard_text |-> text,
                       texture |-> Some(load_texture("qr-code", color_image.image)),
                       panic |-> FALSE, lib_calls |-> 1]
        ELSE [vcard_text |-> text, texture |-> texture,
              panic |-> FALSE, lib_calls |-> 0]

\* lines 179-184 (Ctrl+C) and 311-315 (the Copy button)
\* fault: the form is copied, not vcard_text
CopyFromForm(text, show, time) == [copied_text |-> generate_vcard(contact), show |-> TRUE, time |-> 0]
OnCopy(text, show, time) ==
    IF ~is_empty(text)
    THEN [copied_text |-> text, show |-> TRUE, time |-> 0]
    ELSE [copied_text |-> <<>>, show |-> show, time |-> time]

\* lines 192-202 (Ctrl+S) and 366-379 (the Download button)
\* fault: the saved toast is raised whatever save returns
ToastOnFailure(text, path, show, time, lib_ok, io) == LET r == save_qr_code_to_png(text, path, lib_ok, io) IN [panic |-> r.panic, show |-> TRUE, time |-> 0, ret |-> Some(r.ret), fs_ops |-> r.fs_ops, lib_calls |-> r.lib_calls, stdout |-> <<>>, stderr |-> <<>>]
OnExport(text, path, show, time, lib_ok, io) ==
    LET saving == <<"Saving QR code to file: ", path>>
        r == save_qr_code_to_png(text, path, lib_ok, io)
    IN  IF r.panic
        THEN [panic |-> TRUE, show |-> show, time |-> time, ret |-> None,
              fs_ops |-> r.fs_ops, lib_calls |-> r.lib_calls,
              stdout |-> <<saving>>, stderr |-> <<>>]
        ELSE IF r.ret.ok
        THEN [panic |-> FALSE, show |-> TRUE, time |-> 0, ret |-> Some(r.ret),
              fs_ops |-> r.fs_ops, lib_calls |-> r.lib_calls,
              stdout |-> <<saving, <<"QR code saved successfully to ", path>>>>,
              stderr |-> <<>>]
        ELSE [panic |-> FALSE, show |-> show, time |-> time, ret |-> Some(r.ret),
              fs_ops |-> r.fs_ops, lib_calls |-> r.lib_calls,
              stdout |-> <<saving>>,
              stderr |-> <<<<"Error saving QR code: ">> \o r.ret.err>>]

\* the record of an export in `out`
ExportOut(kind, e) ==
    [NoOut(kind) EXCEPT !.ret = e.ret, !.fs_ops = e.fs_ops, !.stderr = e.stderr,
                        !.stdout = e.stdout, !.lib_calls = e.lib_calls]

\* Ctrl+S acts only with a texture and a non-empty text (lines 188-190)
\* fault: the Ctrl+S guard left out
UnguardedCtrlS == TRUE
CtrlSArmed ==
    qr_code_texture.is_some /\ ~is_empty(vcard_text)

-----------------------------------------------------------------------------
(* The frames of update(), one input event each.                           *)

\* impl Default for BusinessCardApp
Init ==
    /\ contact = DefaultContact
    /\ vcard_text = <<>>
    /\ show_copied_toast = FALSE
    /\ toast_time = 0
    /\ qr_code_texture = None
    /\ show_saved_toast = FALSE
    /\ saved_toast_time = 0
    /\ save_path = DEFAULT_SAVE_PATH
    /\ raster = DefaultRaster
    /\ panicked = FALSE
    /\ generated = FALSE
    /\ out = NoOut("init")

\* a frame with no input: only the timers run
Idle ==
    /\ ~panicked
    /\ \E dt \in DeltaTimes :
         LET ct == UpdateToast(show_copied_toast, toast_time, dt)
             st == UpdateToast(show_saved_toast, saved_toast_time, dt)
         IN  /\ show_copied_toast' = ct.show
             /\ toast_time' = ct.time
             /\ show_saved_toast' = st.show
             /\ saved_toast_time' = st.time
    /\ out' = NoOut("Idle")
    /\ UNCHANGED <<contact, vcard_text, qr_code_texture, save_path, raster,
                   panicked, generated>>

\* Ctrl+G, then the timers
CtrlG ==
    /\ ~panicked
    /\ \E dt \in DeltaTimes, lib_ok \in BOOLEAN :
         LET g == OnGenerate(contact, qr_code_texture, lib_ok)
             ct == UpdateToast(show_copied_toast, toast_time, dt)
             st == UpdateToast(show_saved_toast, saved_toast_time, dt)
         IN  /\ vcard_text' = g.vcard_text
             /\ qr_code_texture' = g.texture
             /\ panicked' = g.panic
             /\ generated' = (generated \/ ~g.panic)
             /\ show_copied_toast' = IF g.panic THEN show_copied_toast ELSE ct.show
             /\ toast_time' = IF g.panic THEN toast_time ELSE ct.time
             /\ show_saved_toast' = IF g.panic THEN show_saved_toast ELSE st.show
             /\ saved_toast_time' = IF g.panic THEN saved_toast_time ELSE st.time
             /\ out' = [NoOut("CtrlG") EXCEPT !.lib_calls = g.lib_calls]
    /\ UNCHANGED <<contact, save_path, raster>>

\* Ctrl+C, then the timers
CtrlC ==
    /\ ~panicked
    /\ \E dt \in DeltaTimes :
         LET c == OnCopy(vcard_text, show_copied_toast, toast_time)
             ct == UpdateToast(c.show, c.time, dt)
             st == UpdateToast(show_saved_toast, saved_toast_time, dt)
         IN  /\ show_copied_toast' = ct.show
             /\ toast_time' = ct.time
             /\ show_saved_toast' = st.show
             /\ saved_toast_time' = st.time
             /\ out' = [NoOut("CtrlC") EXCEPT !.copied_text = c.copied_text]
    /\ UNCHANGED <<contact, vcard_text, qr_code_texture, save_path, raster,
                   panicked, generated>>

\* Ctrl+S, then the timers
CtrlS ==
    /\ ~panicked
    /\ \E dt \in DeltaTimes, lib_ok \in BOOLEAN, io \in IoOutcomes :
         LET e == IF CtrlSArmed
                  THEN OnExport(vcard_text, save_path, show_saved_toast,
                                saved_toast_time, lib_ok, io)
                  ELSE [panic |-> FALSE, show |-> show_saved_toast,
                        time |-> saved_toast_time, ret |-> None, fs_ops |-> <<>>,
                        lib_calls |-> 0, stdout |-> <<>>, stderr |-> <<>>]
             ct == UpdateToast(show_copied_toast, toast_time, dt)
             st == UpdateToast(e.show, e.time, dt)
         IN  /\ panicked' = e.panic
             /\ show_copied_toast' = IF e.panic THEN show_copied_toast ELSE ct.show
             /\ toast_time' = IF e.panic THEN toast_time ELSE ct.time
             /\ show_saved_toast' = IF e.panic THEN show_saved_toast ELSE st.show
             /\ saved_toast_time' = IF e.panic THEN saved_toast_time ELSE st.time
             /\ out' = ExportOut("CtrlS", e)
    /\ UNCHANGED <<contact, vcard_text, qr_code_texture, save_path, raster,
                   generated>>

\* the timers, then a text_edit_singleline of the contact form (233-279)
EditField ==
    /\ ~panicked
    /\ \E dt \in DeltaTimes, f \in TypedFields, typed \in FormTexts :
         LET ct == UpdateToast(show_copied_toast, toast_time, dt)
             st == UpdateToast(show_saved_toast, saved_toast_time, dt)
             edited == [contact EXCEPT ![f] = text_edit(contact[f], typed, TRUE)]
         IN  /\ typed # contact[f]
             /\ Filled(edited) <= MaxFilled
             /\ contact' = edited
             /\ show_copied_toast' = ct.show
             /\ toast_time' = ct.time
             /\ show_saved_toast' = st.show
             /\ saved_toast_time' = st.time
    /\ out' = NoOut("EditField")
    /\ UNCHANGED <<vcard_text, qr_code_texture, save_path, raster, panicked,
                   generated>>

\* the timers, then the Generate button (283-294)
ClickGenerate ==
    /\ ~panicked
    /\ \E dt \in DeltaTimes, lib_ok \in BOOLEAN :
         LET ct == UpdateToast(show_copied_toast, toast_time, dt)
             st == UpdateToast(show_saved_toast, saved_toast_time, dt)
             g == OnGenerate(contact, qr_code_texture, lib_ok)
         IN  /\ vcard_text' = g.vcard_text
             /\ qr_code_texture' = g.texture
             /\ panicked' = g.panic
             /\ generated' = (generated \/ ~g.panic)
             /\ show_copied_toast' = ct.show
             /\ toast_time' = ct.time
             /\ show_saved_toast' = st.show
             /\ saved_toast_time' = st.time
             /\ out' = [NoOut("ClickGenerate") EXCEPT !.lib_calls = g.lib_calls]
    /\ UNCHANGED <<contact, save_path, raster>>

\* the timers, then the Copy button (310-316)
ClickCopy ==
    /\ ~panicked
    /\ \E dt \in DeltaTimes :
         LET ct == UpdateToast(show_copied_toast, toast_time, dt)
             st == UpdateToast(show_saved_toast, saved_toast_time, dt)
             c == OnCopy(vcard_text, ct.show, ct.time)
         IN  /\ show_copied_toast' = c.show
             /\ toast_time' = c.time
             /\ show_saved_toast' = st.show
             /\ saved_toast_time' = st.time
             /\ out' = [NoOut("ClickCopy") EXCEPT !.copied_text = c.copied_text]
    /\ UNCHANGED <<contact, vcard_text, qr_code_texture, save_path, raster,
                   panicked, generated>>

\* the timers, then typing at the vCard box, which is not interactive (318-324)
TypeVcard ==
    /\ ~panicked
    /\ \E dt \in DeltaTimes, typed \in FormTexts :
         LET ct == UpdateToast(show_copied_toast, toast_time, dt)
             st == UpdateToast(show_saved_toast, saved_toast_time, dt)
         IN  /\ typed # vcard_text
             /\ vcard_text' = text_edit(vcard_text, typed, FALSE)
             /\ show_copied_toast' = ct.show
             /\ toast_time' = ct.time
             /\ show_saved_toast' = st.show
             /\ saved_toast_time' = st.time
    /\ out' = NoOut("TypeVcard")
    /\ UNCHANGED <<contact, qr_code_texture, save_path, raster, panicked,
                   generated>>

\* the timers, then the filename box, shown only with a texture (332, 349-352)
EditSavePath ==
    /\ ~panicked
    /\ qr_code_texture.is_some
    /\ \E dt \in DeltaTimes, typed \in Paths :
         LET ct == UpdateToast(show_copied_toast, toast_time, dt)
             st == UpdateToast(show_saved_toast, saved_toast_time, dt)
         IN  /\ typed # save_path
             /\ save_path' = text_edit(save_path, typed, TRUE)
             /\ show_copied_toast' = ct.show
             /\ toast_time' = ct.time
             /\ show_saved_toast' = st.show
             /\ saved_toast_time' = st.time
    /\ out' = NoOut("EditSavePath")
    /\ UNCHANGED <<contact, vcard_text, qr_code_texture, raster, panicked,
                   generated>>

\* the timers, then the Download button, shown only with a texture (332, 365-380)
ClickDownload ==
    /\ ~panicked
    /\ qr_code_texture.is_some
    /\ \E dt \in DeltaTimes, lib_ok \in BOOLEAN, io \in IoOutcomes :
         LET ct == UpdateToast(show_copied_toast, toast_time, dt)
             st == UpdateToast(show_saved_toast, saved_toast_time, dt)
             e == OnExport(vcard_text, save_path, st.show, st.time, lib_ok, io)
         IN  /\ panicked' = e.panic
             /\ show_copied_toast' = ct.show
             /\ toast_time' = ct.time
             /\ show_saved_toast' = e.show
             /\ saved_toast_time' = e.time
             /\ out' = ExportOut("ClickDownload", e)
    /\ UNCHANGED <<contact, vcard_text, qr_code_texture, save_path, raster,
                   generated>>

Next ==
    \/ Idle
    \/ CtrlG
    \/ CtrlC
    \/ CtrlS
    \/ EditField
    \/ ClickGenerate
    \/ ClickCopy
    \/ TypeVcard
    \/ EditSavePath
    \/ ClickDownload

Spec ==
    Init /\ [][Next]_vars

-----------------------------------------------------------------------------
(* The functions on their own: the inputs are drawn by the initial state   *)
(* and one action applies the function.                                    *)

PlainTexts ==
    {<<>>, <<"a">>}
\* free text that carries a line break
InjectedTexts ==
    {<<"\n", "N", ":">>, <<"\n", "F", "N", ":">>, <<"\n", "O", "R", "G", ":">>}

\* the contacts the form can hold
FormContacts ==
    {c \in [Fields -> FormTexts] :
        /\ \A f \in Fields \ TypedFields : c[f] = <<>>
        /\ Filled(c) <= MaxFilled}

\* the texts the application generates
GeneratedTexts ==
    {generate_vcard(c) : c \in FormContacts}

\* the sample windows a rasterizer may paint
Rasters ==
    [1..MaxSamples -> GrayValues]

Quiet ==
    /\ show_copied_toast = FALSE
    /\ toast_time = 0
    /\ show_saved_toast = FALSE
    /\ saved_toast_time = 0
    /\ panicked = FALSE
    /\ generated = FALSE
    /\ out = NoOut("init")

\* BusinessContact values: every field plain, but for at most MaxInjected
InitEncode ==
    /\ \E base \in [Fields -> PlainTexts] :
         \E S \in {T \in SUBSET Fields : Cardinality(T) <= MaxInjected} :
           \E inj \in [S -> InjectedTexts] :
             contact = [f \in Fields |-> IF f \in S THEN inj[f] ELSE base[f]]
    /\ vcard_text = <<>>
    /\ qr_code_texture = None
    /\ save_path = DEFAULT_SAVE_PATH
    /\ raster = DefaultRaster
    /\ Quiet

\* contact.generate_vcard()
CallGenerateVcard ==
    /\ out.kind = "init"
    /\ out' = [NoOut("generate_vcard") EXCEPT !.ret = generate_vcard(contact)]
    /\ UNCHANGED <<contact, vcard_text, qr_code_texture, show_copied_toast,
                   toast_time, show_saved_toast, saved_toast_time, save_path,
                   raster, panicked, generated>>

SpecEncode ==
    InitEncode /\ [][CallGenerateVcard]_vars

InitRender ==
    /\ contact = DefaultContact
    /\ vcard_text \in GeneratedTexts
    /\ qr_code_texture = None
    /\ save_path = DEFAULT_SAVE_PATH
    /\ raster \in Rasters
    /\ Quiet

\* self.generate_qr_code(&self.vcard_text)
CallGenerateQrCode ==
    /\ out.kind = "init"
    /\ \E lib_ok \in BOOLEAN :
         LET r == generate_qr_code(vcard_text, lib_ok)
         IN  /\ panicked' = r.panic
             /\ out' = [NoOut("generate_qr_code") EXCEPT !.ret = r, !.lib_calls = 1]
    /\ UNCHANGED <<contact, vcard_text, qr_code_texture, show_copied_toast,
                   toast_time, show_saved_toast, saved_toast_time, save_path,
                   raster, generated>>

SpecRender ==
    InitRender /\ [][CallGenerateQrCode]_vars

InitExport ==
    /\ contact \in FormContacts
    /\ vcard_text \in GeneratedTexts \cup {<<>>}
    /\ qr_code_texture = None
    /\ save_path \in Paths
    /\ raster = DefaultRaster
    /\ Quiet

\* self.save_qr_code_to_png(path)
CallSave ==
    /\ out.kind = "init"
    /\ \E path \in Paths, lib_ok \in BOOLEAN, io \in IoOutcomes :
         LET r == save_qr_code_to_png(vcard_text, path, lib_ok, io)
         IN  /\ panicked' = r.panic
             /\ out' = [NoOut("save_qr_code_to_png") EXCEPT
                            !.ret = IF r.panic THEN None ELSE Some(r.ret),
                            !.fs_ops = r.fs_ops, !.lib_calls = r.lib_calls]
    /\ UNCHANGED <<contact, vcard_text, qr_code_texture, show_copied_toast,
                   toast_time, show_saved_toast, saved_toast_time, save_path,
                   raster, generated>>

SpecExport ==
    InitExport /\ [][CallSave]_vars

-----------------------------------------------------------------------------
(* Vocabulary of the properties.                                           *)

Generates ==
    {"CtrlG", "ClickGenerate"}
Copies ==
    {"CtrlC", "ClickCopy"}
Exports ==
    {"CtrlS", "ClickDownload"}

StartsWith(s, p) ==
    Len(s) >= Len(p) /\ SubSeq(s, 1, Len(p)) = p
EndsWith(s, p) ==
    Len(s) >= Len(p) /\ SubSeq(s, Len(s) - Len(p) + 1, Len(s)) = p

\* the lines of a text, without their terminators
Lines(s) ==
    LET breaks == {i \in DOMAIN s : s[i] = "\n"}
        n == Cardinality(breaks)
        brk(k) == IF k = 0 THEN 0
                  ELSE IF k = n + 1 THEN Len(s) + 1
                  ELSE CHOOSE i \in breaks : Cardinality({j \in breaks : j < i}) = k - 1
    IN  [k \in 1..(n + 1) |-> SubSeq(s, brk(k - 1) + 1, brk(k) - 1)]

CountLines(s, prefix) ==
    LET ls == Lines(s)
    IN  Cardinality({i \in DOMAIN ls : StartsWith(ls[i], prefix)})

HasLine(s, prefix) ==
    CountLines(s, prefix) > 0

NoLineBreak(c) ==
    \A f \in Fields : \A i \in DOMAIN c[f] : c[f][i] # "\n"

Encoded ==
    out.kind = "generate_vcard"

\* the prefix of each optional field's line
LinePrefix ==
    [organization |-> P_ORG,
     title |-> P_TITLE,
     email |-> P_EMAIL,
     phone |-> P_TEL_WORK,
     mobile |-> P_TEL_CELL,
     website |-> P_URL,
     address |-> <<"A", "D", "R", ";", "t", "y", "p", "e", "=", "W", "O", "R", "K", ":">>,
     note |-> P_NOTE]

\* the lines the format prescribes for a record, in order
Optional(value, line) ==
    IF value = <<>> THEN <<>> ELSE <<line>>
ExpectedLines(c) ==
    << <<"B", "E", "G", "I", "N", ":", "V", "C", "A", "R", "D">>,
       <<"V", "E", "R", "S", "I", "O", "N", ":", "3", ".", "0">>,
       <<"N", ":">> \o c.last_name \o <<";">> \o c.first_name \o <<";", ";", ";">>,
       <<"F", "N", ":">> \o c.first_name \o <<" ">> \o c.last_name >>
    \o Optional(c.organization, P_ORG \o c.organization)
    \o Optional(c.title, P_TITLE \o c.title)
    \o Optional(c.email, P_EMAIL \o c.email)
    \o Optional(c.phone, P_TEL_WORK \o c.phone)
    \o Optional(c.mobile, P_TEL_CELL \o c.mobile)
    \o Optional(c.website, P_URL \o c.website)
    \o Optional(c.address, P_ADR \o c.address \o <<";", ";", ";", ";">>)
    \o Optional(c.note, P_NOTE \o c.note)
    \o << <<"E", "N", "D", ":", "V", "C", "A", "R", "D">> >>

EMPTY_CARD ==
    <<"B", "E", "G", "I", "N", ":", "V", "C", "A", "R", "D", "\n", "V", "E", "R", "S", "I", "O", "N", ":", "3", ".", "0", "\n", "N", ":", ";", ";", ";", ";", "\n", "F", "N", ":", " ", "\n", "E", "N", "D", ":", "V", "C", "A", "R", "D">>

\* the texture a completed Generate loads for a text
Rendered(text) ==
    Some(load_texture("qr-code", generate_qr_code(text, TRUE).image))

\* save_qr_code_to_png was entered by an export handler
ExportCalled(o) ==
    o.kind \in Exports /\ o.stdout # <<>>

\* an export whose filesystem write failed
FailedWrite(o) ==
    o.kind \in Exports /\ Len(o.fs_ops) > 0 /\ ~o.fs_ops[1].ok

-----------------------------------------------------------------------------
(* The properties.                                                         *)

\* C1: whenever a QR bitmap is present it is the rendering of the current
\* vcard_text; a frame that changes vcard_text or the bitmap is a Generate,
\* and it leaves the text of the form's record and the bitmap of that text.
C1_BitmapMatchesText ==
    /\ [](~panicked /\ qr_code_texture.is_some
            => qr_code_texture = Rendered(vcard_text))
    /\ [][(~panicked' /\ (vcard_text' # vcard_text
                            \/ qr_code_texture' # qr_code_texture))
            => /\ out'.kind \in Generates
               /\ vcard_text' = generate_vcard(contact)
               /\ qr_code_texture' = Rendered(vcard_text')]_vars

\* C1's case: a bitmap is shown and the form has been edited since
C1_Witness ==
    /\ ~panicked
    /\ qr_code_texture.is_some
    /\ generate_vcard(contact) # vcard_text
    /\ out.kind = "TypeVcard"

\* C2: the session starts Empty; an export handler runs only after a
\* Generate; every Generate that completes leaves the text and bitmap of the
\* form's record; and once generated, Generate and export stay possible.
C2_StateMachine ==
    /\ (is_empty(vcard_text) /\ ~qr_code_texture.is_some /\ ~generated)
    /\ [](ExportCalled(out) => generated)
    /\ [][(out'.kind \in Generates /\ ~panicked')
            => /\ generated'
               /\ vcard_text' = generate_vcard(contact)
               /\ qr_code_texture' = Rendered(vcard_text')]_vars
    /\ []((~panicked /\ generated)
            => /\ CtrlSArmed
               /\ ENABLED ClickDownload
               /\ ENABLED CtrlG
               /\ ENABLED ClickGenerate)

\* C2's case: a Generate right after a successful export
C2_Witness ==
    /\ ~panicked
    /\ out.kind \in Generates
    /\ show_saved_toast
    /\ generate_vcard(contact) = vcard_text
    /\ contact # DefaultContact

\* C3: save_qr_code_to_png with an empty vcard_text returns the empty-input
\* error, calls no rasterizer and issues no filesystem operation.
C3_EmptyExport ==
    (out.kind = "save_qr_code_to_png" /\ is_empty(vcard_text))
        => /\ out.ret = Some(Err(NO_VCARD))
           /\ out.lib_calls = 0
           /\ out.fs_ops = <<>>
           /\ ~panicked

\* C3's case: the export was called with no text
C3_Witness ==
    /\ out.kind = "save_qr_code_to_png"
    /\ is_empty(vcard_text)
    /\ ~out.ret.value.ok

\* C4: an export whose write fails returns the error with the underlying
\* message, prints it once, writes once, does not panic, and changes nothing
\* of the session: the saved indication only ages as in any frame.
C4_FailedExport ==
    [][FailedWrite(out')
        => /\ Len(out'.fs_ops) = 1
           /\ out'.lib_calls = 1
           /\ out'.ret = Some(Err(<<"Failed to save QR code: ", out'.fs_ops[1].error>>))
           /\ out'.stderr = << <<"Error saving QR code: ", "Failed to save QR code: ",
                                 out'.fs_ops[1].error>> >>
           /\ ~panicked'
           /\ contact' = contact
           /\ vcard_text' = vcard_text
           /\ qr_code_texture' = qr_code_texture
           /\ save_path' = save_path
           /\ \E dt \in DeltaTimes :
                LET st == UpdateToast(show_saved_toast, saved_toast_time, dt)
                IN  show_saved_toast' = st.show /\ saved_toast_time' = st.time]_vars

\* C4's case: a failed write while an earlier export's indication is shown
C4_Witness ==
    /\ FailedWrite(out)
    /\ show_saved_toast
    /\ ~panicked

\* C5: the output starts with "BEGIN:VCARD\n", ends with "END:VCARD" and
\* has exactly one line beginning "N:" and exactly one beginning "FN:".
C5_Framing ==
    Encoded
        => /\ StartsWith(out.ret, S_BEGIN)
           /\ EndsWith(out.ret, S_END)
           /\ CountLines(out.ret, P_N) = 1
           /\ CountLines(out.ret, P_FN) = 1

\* C6: each optional field's line is in the output if and only if the field
\* is non-empty.
C6_OptionalLines ==
    Encoded
        => \A f \in DOMAIN LinePrefix :
              HasLine(out.ret, LinePrefix[f]) <=> contact[f] # <<>>

\* C7: the output's lines are the prescribed lines in the prescribed order,
\* one "\n" between them, and the empty record gives the empty card.
C7_LineOrder ==
    Encoded
        => /\ Lines(out.ret) = ExpectedLines(contact)
           /\ (contact = DefaultContact => out.ret = EMPTY_CARD)

\* C5, C6 and C7 on the records none of whose fields holds a line break:
\* there all three hold, so only a line break in a value breaks them.
Encoder_WithoutLineBreaks ==
    NoLineBreak(contact) => C5_Framing /\ C6_OptionalLines /\ C7_LineOrder

\* C8: a rendered image is 512x512, has one pixel (four bytes) per
\* grayscale sample in the samples' order, and every pixel has
\* R = G = B = its sample and alpha = 255.
C8_GrayToRgba ==
    (out.kind = "generate_qr_code" /\ ~out.ret.panic)
        => LET img == out.ret.image
           IN  /\ img.size = <<512, 512>>
               /\ Len(img.pixels) = Len(raster)
               /\ \A i \in DOMAIN raster :
                    img.pixels[i] = <<raster[i], raster[i], raster[i], 255>>

\* C8's case: an image was rendered from a raster with a mid-gray sample
C8_Witness ==
    /\ out.kind = "generate_qr_code"
    /\ ~out.ret.panic
    /\ raster[1] = 128
    /\ raster[2] = 0

\* C9: a bitmap is present exactly when vcard_text is non-empty;
\* generate_vcard of the form's record is never empty; a Generate that
\* completes rasterizes and leaves a bitmap; a non-empty text stays so.
C9_BitmapIffText ==
    /\ [](~panicked => (qr_code_texture.is_some <=> ~is_empty(vcard_text)))
    /\ [](~is_empty(generate_vcard(contact)))
    /\ [][(out'.kind \in Generates /\ ~panicked')
            => out'.lib_calls = 1 /\ qr_code_texture'.is_some]_vars
    /\ [][(~is_empty(vcard_text) /\ ~panicked')
            => ~is_empty(vcard_text') /\ qr_code_texture'.is_some]_vars

\* C9's case: a Generate with every field empty has produced a bitmap
C9_Witness ==
    /\ ~panicked
    /\ out.kind \in Generates
    /\ contact = DefaultContact
    /\ qr_code_texture.is_some

\* C10: only a Generate changes vcard_text or the bitmap; a Copy requests
\* exactly vcard_text and does nothing when it is empty; an export writes
\* the image of vcard_text to save_path.
C10_OnlyGenerateWrites ==
    [][/\ (out'.kind \notin Generates
             => vcard_text' = vcard_text /\ qr_code_texture' = qr_code_texture)
       /\ (out'.kind \in Copies
             => /\ out'.copied_text = vcard_text
                /\ (is_empty(vcard_text)
                      => \E dt \in DeltaTimes :
                           LET ct == UpdateToast(show_copied_toast, toast_time, dt)
                           IN  show_copied_toast' = ct.show /\ toast_time' = ct.time))
       /\ ((out'.kind \in Exports /\ out'.fs_ops # <<>>)
             => /\ out'.fs_ops[1].image.symbol.data = vcard_text
                /\ out'.fs_ops[1].path = PathBuf(save_path))]_vars

\* C10's case: a Copy of a text the form no longer matches
C10_Witness ==
    /\ out.kind \in Copies
    /\ ~is_empty(vcard_text)
    /\ out.copied_text = vcard_text
    /\ generate_vcard(contact) # vcard_text

====
